---- MODULE Spec2Model ----
(***************************************************************************)
(* MedScope AI: the semantic retrieval engine (scripts/search_engine.py)   *)
(* and its embedding store (scripts/embedding_generator.py).               *)
(*                                                                         *)
(* Text is modelled as sequences of one-character strings, so that the     *)
(* regular-expression word boundaries of preprocess_query and the          *)
(* str()/int()/isdigit() conversions of filter_by_year act on characters.  *)
(***************************************************************************)
EXTENDS Integers, Sequences, FiniteSets, TLC

VARIABLES
  constructed,   \* MedScopeSearchEngine.__init__ has run
  embFile,       \* content of embeddings_path on disk, or Missing
  metaFile,      \* content of metadata_path on disk, or Missing
  is_ready,      \* MedScopeSearchEngine.is_ready
  embeddings,    \* EmbeddingGenerator.embeddings
  metadata,      \* EmbeddingGenerator.metadata
  op,            \* name of the last operation that ran
  args,          \* its arguments
  ret,           \* what it returned, or the exception it raised
  calls,         \* collaborators the last operation touched
  pc,            \* concurrent callers: the next step of each caller's search
  frame          \* concurrent callers: the local variables of each search

vars == <<constructed, embFile, metaFile, is_ready, embeddings, metadata,
          op, args, ret, calls, pc, frame>>

engineVars == <<constructed, embFile, metaFile, is_ready, embeddings, metadata>>

threadVars == <<pc, frame>>

(***************************************************************************)
(* Bounds                                                                  *)
(***************************************************************************)
MaxPieces == 3

(***************************************************************************)
(* Characters and strings                                                  *)
(***************************************************************************)
\* a file of the data directory: absent (or unreadable), or present with content
Missing == [exists |-> FALSE, data |-> <<>>]
File(d) == [exists |-> TRUE, data |-> d]
\* Python's None; no text equals it, texts being sequences of single characters
None == <<"None">>

UpperChars ==
  <<"A","B","C","D","E","F","G","H","I","J","K","L","M",
    "N","O","P","Q","R","S","T","U","V","W","X","Y","Z">>

LowerChars ==
  <<"a","b","c","d","e","f","g","h","i","j","k","l","m",
    "n","o","p","q","r","s","t","u","v","w","x","y","z">>

Digits == <<"0","1","2","3","4","5","6","7","8","9">>

Range(s) == {s[i] : i \in DOMAIN s}

\* str.lower() on one character
LowerChar(c) ==
  IF c \in Range(UpperChars)
    THEN LowerChars[CHOOSE i \in DOMAIN UpperChars : UpperChars[i] = c]
    ELSE c

\* str.lower()
Lower(s) == [i \in DOMAIN s |-> LowerChar(s[i])]

\* the characters str.strip() removes
Whitespace == {" ", "\t", "\n"}

RECURSIVE LStrip(_)
LStrip(s) ==
  IF s # <<>> /\ Head(s) \in Whitespace THEN LStrip(Tail(s)) ELSE s

RECURSIVE RStrip(_)
RStrip(s) ==
  IF s # <<>> /\ s[Len(s)] \in Whitespace
    THEN RStrip(SubSeq(s, 1, Len(s) - 1))
    ELSE s

\* str.strip()
Strip(s) == RStrip(LStrip(s))

\* the regular-expression class \w
IsWordChar(c) ==
  c \in Range(LowerChars) \cup Range(UpperChars) \cup Range(Digits) \cup {"_"}

(***************************************************************************)
(* preprocess_query                                                        *)
(***************************************************************************)
abbreviations ==
  << [abbr |-> <<"r","c","t">>,
      expansion |-> <<"r","a","n","d","o","m","i","z","e","d"," ","c","o","n","t","r","o","l","l","e","d"," ","t","r","i","a","l">>],
     [abbr |-> <<"r","c","t","s">>,
      expansion |-> <<"r","a","n","d","o","m","i","z","e","d"," ","c","o","n","t","r","o","l","l","e","d"," ","t","r","i","a","l","s">>],
     [abbr |-> <<"c","o","v","i","d">>,
      expansion |-> <<"c","o","v","i","d","-","1","9"," ","c","o","r","o","n","a","v","i","r","u","s">>],
     [abbr |-> <<"a","i">>,
      expansion |-> <<"a","r","t","i","f","i","c","i","a","l"," ","i","n","t","e","l","l","i","g","e","n","c","e">>],
     [abbr |-> <<"m","l">>,
      expansion |-> <<"m","a","c","h","i","n","e"," ","l","e","a","r","n","i","n","g">>],
     [abbr |-> <<"p","t">>,
      expansion |-> <<"p","h","y","s","i","c","a","l"," ","t","h","e","r","a","p","y"," ","p","h","y","s","i","o","t","h","e","r","a","p","y">>],
     [abbr |-> <<"o","a">>,
      expansion |-> <<"o","s","t","e","o","a","r","t","h","r","i","t","i","s">>],
     [abbr |-> <<"d","m">>,
      expansion |-> <<"d","i","a","b","e","t","e","s"," ","m","e","l","l","i","t","u","s">>],
     [abbr |-> <<"h","t","n">>,
      expansion |-> <<"h","y","p","e","r","t","e","n","s","i","o","n">>],
     [abbr |-> <<"m","i">>,
      expansion |-> <<"m","y","o","c","a","r","d","i","a","l"," ","i","n","f","a","r","c","t","i","o","n">>],
     [abbr |-> <<"c","o","p","d">>,
      expansion |-> <<"c","h","r","o","n","i","c"," ","o","b","s","t","r","u","c","t","i","v","e"," ","p","u","l","m","o","n","a","r","y"," ","d","i","s","e","a","s","e">>] >>

\* the pattern matched without its word boundaries
MatchAt_NoBoundary(abbr, s, i) ==
  /\ i + Len(abbr) - 1 <= Len(s)
  /\ SubSeq(s, i, i + Len(abbr) - 1) = abbr

\* the pattern \b<abbr>\b matches s at position i
MatchAt(abbr, s, i) ==
  /\ i + Len(abbr) - 1 <= Len(s)
  /\ SubSeq(s, i, i + Len(abbr) - 1) = abbr
  /\ (i = 1 \/ ~IsWordChar(s[i - 1]))
  /\ (i + Len(abbr) > Len(s) \/ ~IsWordChar(s[i + Len(abbr)]))

RECURSIVE ReSubFrom(_, _, _, _)
ReSubFrom(abbr, expansion, s, i) ==
  IF i > Len(s) THEN <<>>
  ELSE IF MatchAt(abbr, s, i)
    THEN expansion \o ReSubFrom(abbr, expansion, s, i + Len(abbr))
    ELSE <<s[i]>> \o ReSubFrom(abbr, expansion, s, i + 1)

\* re.sub(rf'\b{abbr}\b', expansion, s): leftmost non-overlapping matches,
\* the replacement text is not scanned again
ReSub(abbr, expansion, s) == ReSubFrom(abbr, expansion, s, 1)

RECURSIVE ExpandFrom(_, _)
ExpandFrom(k, s) ==
  IF k > Len(abbreviations) THEN s
  ELSE ExpandFrom(k + 1,
                  ReSub(abbreviations[k].abbr, abbreviations[k].expansion, s))

preprocess_query(query) == ExpandFrom(1, Strip(Lower(query)))

(***************************************************************************)
(* Inputs of the normalisation runs: queries built from a few pieces, so   *)
(* that abbreviations occur alone, next to separators, several times, and  *)
(* inside longer words.                                                    *)
(***************************************************************************)
QueryPieces ==
  {abbreviations[k].abbr : k \in DOMAIN abbreviations}
    \cup {<<"R","C","T">>, <<"o","n">>, <<"a","i","r","c","r","a","f","t">>,
          <<" ">>, <<"-">>, <<"s">>}

RECURSIVE Flatten(_)
Flatten(ps) == IF ps = <<>> THEN <<>> ELSE Head(ps) \o Flatten(Tail(ps))

PieceSeqs == UNION {[1..n -> QueryPieces] : n \in 0..MaxPieces}

NormQueries == {Flatten(ps) : ps \in PieceSeqs}

(***************************************************************************)
(* Specification of the normalisation runs                                 *)
(***************************************************************************)
InitNormalize ==
  /\ constructed = FALSE
  /\ embFile = Missing
  /\ metaFile = Missing
  /\ is_ready = FALSE
  /\ embeddings = <<>>
  /\ metadata = <<>>
  /\ op = "none"
  /\ args \in {[query |-> q] : q \in NormQueries}
  /\ ret = None
  /\ calls = {}
  /\ pc = <<>>
  /\ frame = <<>>

\* preprocess_query applied to the raw query
Normalize ==
  /\ op = "none"
  /\ op' = "preprocess_query"
  /\ ret' = preprocess_query(args.query)
  /\ UNCHANGED <<engineVars, args, calls, threadVars>>

\* preprocess_query applied to its own output
NormalizeAgain ==
  /\ op = "preprocess_query"
  /\ op' = "preprocess_query_again"
  /\ args' = [query |-> ret]
  /\ ret' = preprocess_query(ret)
  /\ UNCHANGED <<engineVars, calls, threadVars>>

NextNormalize == Normalize \/ NormalizeAgain

SpecNormalize == InitNormalize /\ [][NextNormalize]_vars

(***************************************************************************)
(* Whole-word expansion stated on tokens: the query is cut into maximal    *)
(* runs of word characters and maximal runs of other characters; a run of  *)
(* word characters that is an abbreviation of the table is replaced by its *)
(* expansion, every other run is kept.                                     *)
(***************************************************************************)
RECURSIVE RunEnd(_, _)
RunEnd(s, i) ==
  IF i < Len(s) /\ IsWordChar(s[i + 1]) = IsWordChar(s[i])
    THEN RunEnd(s, i + 1)
    ELSE i

ExpandToken(tok) ==
  IF \E k \in DOMAIN abbreviations : abbreviations[k].abbr = tok
    THEN abbreviations[CHOOSE k \in DOMAIN abbreviations :
                         abbreviations[k].abbr = tok].expansion
    ELSE tok

RECURSIVE ExpandTokensFrom(_, _)
ExpandTokensFrom(s, i) ==
  IF i > Len(s) THEN <<>>
  ELSE ExpandToken(SubSeq(s, i, RunEnd(s, i)))
         \o ExpandTokensFrom(s, RunEnd(s, i) + 1)

\* the text between the first and the last non-whitespace character
Trimmed(s) ==
  LET nonWs == {i \in DOMAIN s : s[i] \notin Whitespace}
  IN IF nonWs = {} THEN <<>>
     ELSE SubSeq(s, CHOOSE i \in nonWs : \A j \in nonWs : i <= j,
                    CHOOSE i \in nonWs : \A j \in nonWs : i >= j)

WholeWordExpansion(q) == ExpandTokensFrom(Lower(Trimmed(q)), 1)

\* C7 (as claimed): normalisation is idempotent: normalising the output of
\* preprocess_query once more gives the same text.
C7_NormalizeIdempotent ==
  op = "preprocess_query_again" => ret = args.query

\* C8: preprocess_query lowercases and trims the query and replaces exactly
\* the whole-word occurrences of the table's abbreviations, all of them, by
\* their expansions; everything else is kept as it is.
C8_WholeWordExpansion ==
  op = "preprocess_query" => ret = WholeWordExpansion(args.query)

\* "aircraft ai": the abbreviation inside the longer word stays, the
\* whole-word occurrence is expanded
C8_Witness ==
  /\ op = "preprocess_query"
  /\ args.query = <<"a","i","r","c","r","a","f","t"," ","a","i">>
  /\ ret = <<"a","i","r","c","r","a","f","t"," ">> \o abbreviations[4].expansion

(***************************************************************************)
(* Python conversions used by filter_by_year                               *)
(***************************************************************************)
ValueError == "ValueError"

DigitValue(c) == (CHOOSE i \in DOMAIN Digits : Digits[i] = c) - 1

RECURSIVE NatToStr(_)
NatToStr(n) ==
  IF n < 10 THEN <<Digits[n + 1]>>
  ELSE NatToStr(n \div 10) \o <<Digits[(n % 10) + 1]>>

\* a year as the metadata stores it: text, or a number
StrYear(s) == [type |-> "str", val |-> s]
IntYear(n) == [type |-> "int", val |-> n]

\* the value used as it is: a number never equals a text
PyStr_NoConversion(v) ==
  IF v.type = "int" THEN <<"<int>">> ELSE v.val

\* str(value)
PyStr(v) ==
  IF v.type = "int"
    THEN (IF v.val < 0 THEN <<"-">> \o NatToStr(0 - v.val) ELSE NatToStr(v.val))
    ELSE v.val

\* str.isdigit()
IsDigitStr(s) == s # <<>> /\ \A i \in DOMAIN s : s[i] \in Range(Digits)

RECURSIVE DigitsToNat(_)
DigitsToNat(s) ==
  IF s = <<>> THEN 0
  ELSE 10 * DigitsToNat(SubSeq(s, 1, Len(s) - 1)) + DigitValue(s[Len(s)])

\* int(text): surrounding whitespace and one sign are accepted, anything
\* else than decimal digits raises ValueError (ok = FALSE)
PyInt(s) ==
  LET t == Strip(s)
      signed == t # <<>> /\ Head(t) \in {"+", "-"}
      body == IF signed THEN Tail(t) ELSE t
  IN IF ~IsDigitStr(body) THEN [ok |-> FALSE, val |-> 0]
     ELSE IF signed /\ Head(t) = "-" THEN [ok |-> TRUE, val |-> 0 - DigitsToNat(body)]
     ELSE [ok |-> TRUE, val |-> DigitsToNat(body)]

(***************************************************************************)
(* filter_by_year                                                          *)
(***************************************************************************)
RecentWords == {<<"r","e","c","e","n","t">>, <<"l","a","t","e","s","t">>}

\* first year that counts as recent
RecentFrom == 2022

\* the decision of the loop body for one result: "keep", "drop", or the
\* exception raised by int()
YearDecision(result, year_filter) ==
  LET paper_year == PyStr(result.year)
  IN IF Lower(year_filter) \in RecentWords
       THEN IF paper_year = <<>> THEN "drop"
            ELSE IF ~PyInt(paper_year).ok THEN ValueError
            ELSE IF PyInt(paper_year).val >= RecentFrom THEN "keep"
            ELSE "drop"
     ELSE IF IsDigitStr(year_filter)
       THEN (IF paper_year = year_filter THEN "keep" ELSE "drop")
     ELSE "keep"

Returned(v) == [kind |-> "return", val |-> v]
Raised(e) == [kind |-> "raise", exc |-> e]

\* the subsequence of s at the positions where Test holds
RECURSIVE SelectIdx(_, _, _)
SelectIdx(s, Test(_), i) ==
  IF i > Len(s) THEN <<>>
  ELSE (IF Test(i) THEN <<s[i]>> ELSE <<>>) \o SelectIdx(s, Test, i + 1)

filter_by_year(results, year_filter) ==
  IF year_filter = None \/ year_filter = <<>> THEN Returned(results)
  ELSE IF \E i \in DOMAIN results :
            YearDecision(results[i], year_filter) = ValueError
    THEN Raised(ValueError)
  ELSE LET Keep(i) == YearDecision(results[i], year_filter) = "keep"
       IN Returned(SelectIdx(results, Keep, 1))

(***************************************************************************)
(* Inputs of the year-filter runs                                          *)
(***************************************************************************)
MaxFilterDocs == 3

Years ==
  {StrYear(<<>>), StrYear(<<"n","/","a">>),
   StrYear(<<"2","0","2","0">>), StrYear(<<"2","0","2","2">>),
   StrYear(<<"2","0","2","3">>), IntYear(2021), IntYear(2024)}

YearFilters ==
  {<<"r","e","c","e","n","t">>, <<"L","A","T","E","S","T">>,
   <<"2","0","2","3">>, <<"2","0","2","4">>, <<"a","b","c">>}

\* what the wall clock may show while the engine runs
CurrentYears == {2024, 2025, 2026}

FilterInputs ==
  UNION {[1..n -> Years] : n \in 0..MaxFilterDocs}

InitYear ==
  /\ constructed = FALSE
  /\ embFile = Missing
  /\ metaFile = Missing
  /\ is_ready = FALSE
  /\ embeddings = <<>>
  /\ metadata = <<>>
  /\ op = "none"
  /\ args \in {[results |-> [i \in DOMAIN ys |-> [id |-> i, year |-> ys[i]]],
                year_filter |-> yf,
                current_year |-> cy] :
                  ys \in FilterInputs, yf \in YearFilters \cup {None},
                  cy \in CurrentYears}
  /\ ret = None
  /\ calls = {}
  /\ pc = <<>>
  /\ frame = <<>>

FilterByYear ==
  /\ op = "none"
  /\ op' = "filter_by_year"
  /\ ret' = filter_by_year(args.results, args.year_filter)
  /\ UNCHANGED <<engineVars, args, calls, threadVars>>

NextYear == FilterByYear

SpecYear == InitYear /\ [][NextYear]_vars

\* a year is numeric when int() accepts its text
NumericYear(y) == PyInt(PyStr(y)).ok

\* C9 (as claimed): with 'recent' or 'latest' in any letter case the filter
\* returns, in their order, exactly the candidates whose year is numeric and
\* at least the current year minus two.
C9_RecentFollowsCurrentYear ==
  (op = "filter_by_year" /\ args.year_filter # None
     /\ Lower(args.year_filter) \in RecentWords)
  => LET Recent(i) ==
           /\ NumericYear(args.results[i].year)
           /\ PyInt(PyStr(args.results[i].year)).val >= args.current_year - 2
     IN ret = Returned(SelectIdx(args.results, Recent, 1))

(***************************************************************************)
(* Embedding store: vectors, cosine similarity, ranking                    *)
(***************************************************************************)
MaxVectors == 2
MaxRecords == 2
MaxTopK == 2

Abs(x) == IF x < 0 THEN 0 - x ELSE x

Min(a, b) == IF a < b THEN a ELSE b

RECURSIVE DotFrom(_, _, _)
DotFrom(a, b, i) ==
  IF i > Len(a) THEN 0 ELSE a[i] * b[i] + DotFrom(a, b, i + 1)

\* np.dot of two vectors
Dot(a, b) == DotFrom(a, b, 1)

\* square of np.linalg.norm
Norm2(a) == Dot(a, a)

\* A similarity is the real number num / sqrt(den2), kept exact; the
\* division 0/0 of a zero-norm vector gives the floating-point NaN.
NaN == [nan |-> TRUE, num |-> 0, den2 |-> 0]

Similarity(e, q) ==
  IF Norm2(e) * Norm2(q) = 0 THEN NaN
  ELSE [nan |-> FALSE, num |-> Dot(e, q), den2 |-> Norm2(e) * Norm2(q)]

\* x * |x| orders like x
SqSign(x) == x * Abs(x)

\* a < b on similarities; every comparison with NaN is false
SimLess(a, b) ==
  ~a.nan /\ ~b.nan /\ SqSign(a.num) * b.den2 < SqSign(b.num) * a.den2

SimEqual(a, b) ==
  ~a.nan /\ ~b.nan /\ SqSign(a.num) * b.den2 = SqSign(b.num) * a.den2

\* a >= m for a threshold m = num/den with den > 0
SimAtLeast(a, m) ==
  ~a.nan /\ SqSign(a.num) * m.den * m.den >= SqSign(m.num) * a.den2

\* similarities[i] for every stored vector
Similarities(q) == [i \in DOMAIN embeddings |-> Similarity(embeddings[i], q)]

IndexOrders(n) ==
  {f \in [1..n -> 1..n] : \A i, j \in 1..n : i # j => f[i] # f[j]}

\* the sort order of np.argsort: ascending, NaN after every number
SortsBefore(a, b) == (~a.nan /\ b.nan) \/ SimLess(a, b)

\* The results np.argsort may give: the default sort is not stable, so the
\* order among equal similarities depends on the build of the library.
ArgSorts(sims) ==
  {f \in IndexOrders(Len(sims)) :
     \A i, j \in 1..Len(sims) : i < j => ~SortsBefore(sims[f[j]], sims[f[i]])}

\* s[::-1]
Reverse(s) == [i \in DOMAIN s |-> s[Len(s) + 1 - i]]

\* s[:k] for k >= 0
Truncate_Mut(s, k) == s

Truncate(s, k) == SubSeq(s, 1, Min(k, Len(s)))

\* np.argsort(similarities)[::-1][:top_k], for the ascending order the
\* library produced
TopIndices(order, top_k) == Truncate(Reverse(order), top_k)

\* search_similar_papers, for the query vector the embedder returned and the
\* order argsort produced
search_similar_papers(query, top_k, query_embedding, order) ==
  IF Len(embeddings) = 0 THEN [ret |-> Returned(<<>>), calls |-> {"store"}]
  ELSE LET similarities == Similarities(query_embedding)
           top_indices == TopIndices(order, top_k)
       IN IF \E k \in DOMAIN top_indices : top_indices[k] > Len(metadata)
            THEN [ret |-> Raised("IndexError"), calls |-> {"store", "embedder"}]
            ELSE [ret |-> Returned(
                     [k \in DOMAIN top_indices |->
                        [id |-> metadata[top_indices[k]].id,
                         year |-> metadata[top_indices[k]].year,
                         journal |-> metadata[top_indices[k]].journal,
                         similarity_score |-> similarities[top_indices[k]]]]),
                  calls |-> {"store", "embedder"}]

(***************************************************************************)
(* search                                                                  *)
(***************************************************************************)
\* [r for r in results if r['similarity_score'] >= min_similarity]
MinSimilarityFilter(results, min_similarity) ==
  LET Keep(i) == SimAtLeast(results[i].similarity_score, min_similarity)
  IN SelectIdx(results, Keep, 1)

\* the largest n in lo..hi with P(n), for P true at lo and downward closed
RECURSIVE LargestWith(_, _, _)
LargestWith(P(_), lo, hi) ==
  IF lo = hi THEN lo
  ELSE LET mid == (lo + hi + 1) \div 2
       IN IF P(mid) THEN LargestWith(P, mid, hi) ELSE LargestWith(P, lo, mid - 1)

\* round(similarity_score * 100, 1), in tenths of a percent
SimilarityPercentage(sim) ==
  LET AtLeastHalf(n) == (2 * n - 1) * (2 * n - 1) * sim.den2
                           <= 4000000 * sim.num * sim.num
      n == LargestWith(AtLeastHalf, 0, 1000)
  IN IF sim.num < 0 THEN 0 - n ELSE n

AddSearchMetadata(results, query, processed_query) ==
  [k \in DOMAIN results |->
     [id |-> results[k].id,
      year |-> results[k].year,
      journal |-> results[k].journal,
      similarity_score |-> results[k].similarity_score,
      search_query |-> query,
      processed_query |-> processed_query,
      similarity_percentage |-> SimilarityPercentage(results[k].similarity_score)]]

\* The store's records after a search that gave this outcome: every result
\* is a copy of its stored record (.copy()), so the fields written into
\* results do not reach the store.
MetadataAfterSearch_NoCopy(outcome) ==
  IF outcome.kind = "raise" THEN metadata
  ELSE [i \in DOMAIN metadata |->
          IF \E k \in DOMAIN outcome.val :
               "id" \in DOMAIN outcome.val[k] /\ outcome.val[k].id = i
            THEN outcome.val[CHOOSE k \in DOMAIN outcome.val :
                               outcome.val[k].id = i]
            ELSE metadata[i]]

MetadataAfterSearch(outcome) == metadata

NotReadyResults ==
  <<[error |-> "Search engine not properly initialized"]>>

\* search once the readiness check has passed
SearchReady(query, top_k, year_filter, min_similarity, query_embedding, order) ==
  LET processed_query == preprocess_query(query)
      found == search_similar_papers(processed_query, top_k * 2,
                                     query_embedding, order)
  IN IF found.ret.kind = "raise" THEN found
     ELSE LET above == MinSimilarityFilter(found.ret.val, min_similarity)
              inYear == IF year_filter = None \/ year_filter = <<>>
                          THEN Returned(above)
                          ELSE filter_by_year(above, year_filter)
          IN IF inYear.kind = "raise"
               THEN [ret |-> inYear, calls |-> found.calls]
               ELSE [ret |-> Returned(AddSearchMetadata(
                                Truncate(inYear.val, top_k),
                                query, processed_query)),
                     calls |-> found.calls]

search_NoReadyCheck(query, top_k, year_filter, min_similarity, query_embedding, order) ==
  SearchReady(query, top_k, year_filter, min_similarity, query_embedding, order)

search(query, top_k, year_filter, min_similarity, query_embedding, order) ==
  IF ~is_ready THEN [ret |-> Returned(NotReadyResults), calls |-> {}]
  ELSE SearchReady(query, top_k, year_filter, min_similarity,
                   query_embedding, order)

(***************************************************************************)
(* get_search_suggestions                                                  *)
(***************************************************************************)
topics ==
  << <<"r","a","n","d","o","m","i","z","e","d"," ","c","o","n","t","r","o","l","l","e","d"," ","t","r","i","a","l","s">>,
     <<"s","y","s","t","e","m","a","t","i","c"," ","r","e","v","i","e","w"," ","m","e","t","a","-","a","n","a","l","y","s","i","s">>,
     <<"c","o","v","i","d","-","1","9"," ","v","a","c","c","i","n","e"," ","e","f","f","e","c","t","i","v","e","n","e","s","s">>,
     <<"m","a","c","h","i","n","e"," ","l","e","a","r","n","i","n","g"," ","m","e","d","i","c","a","l"," ","d","i","a","g","n","o","s","i","s">>,
     <<"p","h","y","s","i","c","a","l"," ","t","h","e","r","a","p","y"," ","k","n","e","e"," ","o","s","t","e","o","a","r","t","h","r","i","t","i","s">>,
     <<"t","e","l","e","m","e","d","i","c","i","n","e"," ","r","u","r","a","l"," ","h","e","a","l","t","h","c","a","r","e">>,
     <<"m","i","n","d","f","u","l","n","e","s","s"," ","s","t","r","e","s","s"," ","r","e","d","u","c","t","i","o","n"," ","h","e","a","l","t","h","c","a","r","e"," ","w","o","r","k","e","r","s">>,
     <<"a","r","t","i","f","i","c","i","a","l"," ","i","n","t","e","l","l","i","g","e","n","c","e"," ","r","a","d","i","o","l","o","g","y">>,
     <<"d","i","a","b","e","t","e","s"," ","m","a","n","a","g","e","m","e","n","t"," ","i","n","t","e","r","v","e","n","t","i","o","n","s">>,
     <<"c","a","n","c","e","r"," ","i","m","m","u","n","o","t","h","e","r","a","p","y"," ","c","l","i","n","i","c","a","l"," ","t","r","i","a","l","s">> >>

\* a in b, for texts
IsSubstring(a, b) ==
  \E i \in 0..(Len(b) - Len(a)) : SubSeq(b, i + 1, i + Len(a)) = a

RECURSIVE WordEnd(_, _)
WordEnd(s, i) ==
  IF i < Len(s) /\ s[i + 1] \notin Whitespace THEN WordEnd(s, i + 1) ELSE i

\* str.split(): the maximal runs of non-whitespace characters
RECURSIVE SplitFrom(_, _)
SplitFrom(s, i) ==
  IF i > Len(s) THEN <<>>
  ELSE IF s[i] \in Whitespace THEN SplitFrom(s, i + 1)
  ELSE <<SubSeq(s, i, WordEnd(s, i))>> \o SplitFrom(s, WordEnd(s, i) + 1)

Split(s) == SplitFrom(s, 1)

\* the test without its word-overlap alternative
TopicMatches_SubstringOnly(partial_lower, topic) ==
  IsSubstring(partial_lower, topic)

\* the test of the loop over the topics
TopicMatches(partial_lower, topic) ==
  \/ IsSubstring(partial_lower, topic)
  \/ \E k \in DOMAIN Split(partial_lower) :
       IsSubstring(Split(partial_lower)[k], topic)

SuggestionCap == 5

get_search_suggestions(partial_query) ==
  LET partial_lower == Lower(partial_query)
      Matches(i) == TopicMatches(partial_lower, topics[i])
  IN Truncate(SelectIdx(topics, Matches, 1), SuggestionCap)

(***************************************************************************)
(* get_statistics                                                          *)
(***************************************************************************)
\* code-point order of the characters that occur in the model's texts
CharOrder ==
  <<"\t", "\n", " ", "+", "-", "/">> \o Digits \o UpperChars \o <<"_">> \o LowerChars

CharCode(c) == CHOOSE i \in DOMAIN CharOrder : CharOrder[i] = c

\* a < b on texts
RECURSIVE StrLess(_, _)
StrLess(a, b) ==
  IF b = <<>> THEN FALSE
  ELSE IF a = <<>> THEN TRUE
  ELSE IF Head(a) = Head(b) THEN StrLess(Tail(a), Tail(b))
  ELSE CharCode(Head(a)) < CharCode(Head(b))

\* equality of dictionary keys: 2021 and '2021' are different keys
SameKey(a, b) == a.type = b.type /\ a.val = b.val

\* a < b on keys of one type
KeyLess(a, b) == IF a.type = "int" THEN a.val < b.val ELSE StrLess(a.val, b.val)

\* the keys of a counting dictionary, in insertion order
RECURSIVE KeysInOrder(_, _)
KeysInOrder(keys, i) ==
  IF i > Len(keys) THEN <<>>
  ELSE IF \E j \in 1..(i - 1) : SameKey(keys[j], keys[i])
    THEN KeysInOrder(keys, i + 1)
    ELSE <<keys[i]>> \o KeysInOrder(keys, i + 1)

CountOf(keys, k) == Cardinality({i \in DOMAIN keys : SameKey(keys[i], k)})

\* sorted(year_counts.items(), reverse=True); the keys are distinct, so the
\* order is the descending order of the keys
PapersByYear(years) ==
  LET ks == KeysInOrder(years, 1)
      Rank(i) == 1 + Cardinality({j \in DOMAIN ks : KeyLess(ks[i], ks[j])})
  IN [r \in DOMAIN ks |->
        LET i == CHOOSE i \in DOMAIN ks : Rank(i) = r
        IN <<ks[i], CountOf(years, ks[i])>>]

TopJournalsCap == 10

\* sorted(journal_counts.items(), key=count, reverse=True)[:10]; sorted is
\* stable, equal counts stay in insertion order
TopJournals(journals) ==
  LET ks == KeysInOrder(journals, 1)
      Rank(i) == 1 + Cardinality({j \in DOMAIN ks :
                                    \/ CountOf(journals, ks[j]) > CountOf(journals, ks[i])
                                    \/ /\ CountOf(journals, ks[j]) = CountOf(journals, ks[i])
                                       /\ j < i})
  IN Truncate([r \in DOMAIN ks |->
                 LET i == CHOOSE i \in DOMAIN ks : Rank(i) = r
                 IN <<ks[i], CountOf(journals, ks[i])>>],
              TopJournalsCap)

NotReadyStatistics == [error |-> "Search engine not initialized"]

StatisticsReady ==
  LET years == [i \in DOMAIN metadata |-> metadata[i].year]
      journals == [i \in DOMAIN metadata |-> StrYear(metadata[i].journal)]
  IN IF \E i, j \in DOMAIN years : years[i].type # years[j].type
       THEN Raised("TypeError")
       ELSE Returned([total_papers |-> Len(metadata),
                      papers_by_year |-> PapersByYear(years),
                      top_journals |-> TopJournals(journals),
                      embedding_dimensions |->
                        IF Len(embeddings) > 0 THEN Len(embeddings[1]) ELSE 0])

get_statistics_NoReadyCheck == StatisticsReady

get_statistics ==
  IF ~is_ready THEN Returned(NotReadyStatistics) ELSE StatisticsReady

(***************************************************************************)
(* Engine construction                                                     *)
(***************************************************************************)
\* load_embeddings: np.load, then json.load; each raises on a missing or
\* unreadable file, after the assignments made before it
load_embeddings ==
  IF ~embFile.exists
    THEN [ok |-> FALSE, embeddings |-> <<>>, metadata |-> <<>>]
  ELSE IF ~metaFile.exists
    THEN [ok |-> FALSE, embeddings |-> embFile.data, metadata |-> <<>>]
  ELSE [ok |-> TRUE, embeddings |-> embFile.data, metadata |-> metaFile.data]

IsReadyAfter_Mut(loaded) == TRUE

\* the value __init__ gives is_ready
IsReadyAfter(loaded) == loaded.ok

\* MedScopeSearchEngine.__init__
EngineInit ==
  /\ ~constructed
  /\ constructed' = TRUE
  /\ embeddings' = load_embeddings.embeddings
  /\ metadata' = load_embeddings.metadata
  /\ is_ready' = IsReadyAfter(load_embeddings)
  /\ UNCHANGED <<embFile, metaFile, op, args, ret, calls, threadVars>>

(***************************************************************************)
(* Inputs of the engine runs                                               *)
(***************************************************************************)
StoredVectors == {<<0, 0>>, <<1, 0>>, <<0, 1>>}

QueryVectors == {<<1, 0>>, <<-1, 1>>, <<0, 0>>}

MetaRecords ==
  {[year |-> StrYear(<<"2","0","2","3">>), journal |-> <<"A">>],
   [year |-> IntYear(2021), journal |-> <<"B">>],
   [year |-> StrYear(<<"n","/","a">>), journal |-> <<"A">>],
   [year |-> StrYear(<<>>), journal |-> <<"B">>]}

\* a metadata file of records with the unique ids 1, 2, ...
MetaFileOf(rs) ==
  [i \in DOMAIN rs |-> [id |-> i, year |-> rs[i].year, journal |-> rs[i].journal]]

EmbFiles ==
  {Missing} \cup {File(d) : d \in UNION {[1..n -> StoredVectors] : n \in 0..MaxVectors}}

MetaFiles ==
  {Missing} \cup
  {File(MetaFileOf(rs)) : rs \in UNION {[1..n -> MetaRecords] : n \in 0..MaxRecords}}

SearchQueries == {<<"c","o","v","i","d">>, <<" ","R","C","T","s"," ","o","a">>}

SearchYearFilters ==
  {None, <<"r","e","c","e","n","t">>, <<"2","0","2","3">>, <<"a","b","c">>}

PartialQueries ==
  {<<>>, <<"a">>, <<"t","r","i","a","l">>, <<"x","y","z">>,
   <<"C","A","N","C","E","R"," ","v","a","c","c","i","n","e">>}

MinSimilarities ==
  {[num |-> -1, den |-> 1], [num |-> 1, den |-> 10], [num |-> 101, den |-> 100]}

(***************************************************************************)
(* Specification of the engine                                             *)
(***************************************************************************)
Init ==
  /\ constructed = FALSE
  /\ embFile \in EmbFiles
  /\ metaFile \in MetaFiles
  /\ is_ready = FALSE
  /\ embeddings = <<>>
  /\ metadata = <<>>
  /\ op = "none"
  /\ args = None
  /\ ret = None
  /\ calls = {}
  /\ pc = <<>>
  /\ frame = <<>>

\* the engine is constructed and the caller holds no unconsumed result
Idle == constructed /\ op = "none"

Search ==
  /\ Idle
  /\ \E query \in SearchQueries, top_k \in 0..MaxTopK,
        year_filter \in SearchYearFilters,
        min_similarity \in MinSimilarities,
        query_embedding \in QueryVectors :
       \E order \in ArgSorts(Similarities(query_embedding)) :
         LET out == search(query, top_k, year_filter, min_similarity,
                           query_embedding, order)
         IN /\ op' = "search"
            /\ args' = [query |-> query, top_k |-> top_k,
                        year_filter |-> year_filter,
                        min_similarity |-> min_similarity,
                        query_embedding |-> query_embedding]
            /\ ret' = out.ret
            /\ calls' = out.calls
            /\ metadata' = MetadataAfterSearch(out.ret)
  /\ UNCHANGED <<constructed, embFile, metaFile, is_ready, embeddings, threadVars>>

\* EmbeddingGenerator.search_similar_papers called on the engine's store
SearchSimilarPapers ==
  /\ Idle
  /\ \E query \in SearchQueries, top_k \in 0..(MaxVectors + 1),
        query_embedding \in QueryVectors :
       \E order \in ArgSorts(Similarities(query_embedding)) :
         LET out == search_similar_papers(query, top_k, query_embedding, order)
         IN /\ op' = "search_similar_papers"
            /\ args' = [query |-> query, top_k |-> top_k,
                        query_embedding |-> query_embedding]
            /\ ret' = out.ret
            /\ calls' = out.calls
  /\ UNCHANGED <<engineVars, threadVars>>

Suggest ==
  /\ Idle
  /\ \E partial_query \in PartialQueries :
       /\ op' = "get_search_suggestions"
       /\ args' = [partial_query |-> partial_query]
       /\ ret' = Returned(get_search_suggestions(partial_query))
  /\ calls' = {}
  /\ UNCHANGED <<engineVars, threadVars>>

Statistics ==
  /\ Idle
  /\ op' = "get_statistics"
  /\ args' = <<>>
  /\ ret' = get_statistics
  /\ calls' = IF is_ready THEN {"store"} ELSE {}
  /\ UNCHANGED <<engineVars, threadVars>>

\* the caller takes the returned value (or handles the exception); the
\* engine keeps nothing of the call
Return ==
  /\ constructed
  /\ op # "none"
  /\ op' = "none"
  /\ args' = None
  /\ ret' = None
  /\ calls' = {}
  /\ UNCHANGED <<engineVars, threadVars>>

Next ==
  EngineInit \/ Search \/ SearchSimilarPapers \/ Suggest \/ Statistics \/ Return

Spec == Init /\ [][Next]_vars

(***************************************************************************)
(* Properties of the engine                                                *)
(***************************************************************************)
\* the result list of a search that returned
Scores(results) == [i \in DOMAIN results |-> results[i].similarity_score]

C2_NotReadySearchReturnsOneError ==
  (op = "search" /\ ~is_ready)
  => /\ ret.kind = "return"
     /\ Len(ret.val) = 1
     /\ "error" \in DOMAIN ret.val[1]
     /\ calls = {}

C2_Witness ==
  /\ op = "search" /\ ~is_ready
  /\ embFile.exists /\ ~metaFile.exists /\ Len(embeddings) > 0
  /\ args.top_k = MaxTopK
  /\ ret = Returned(NotReadyResults)

\* the value an operation returned is an explicit error value
IsErrorValue ==
  /\ ret.kind = "return"
  /\ IF op = "search"
       THEN Len(ret.val) = 1 /\ "error" \in DOMAIN ret.val[1]
     ELSE IF op = "get_statistics"
       THEN "error" \in DOMAIN ret.val
     ELSE \E i \in DOMAIN ret.val : ret.val[i] \notin Range(topics)

LoadSucceeded == embFile.exists /\ metaFile.exists

\* C4: readiness is one of two values; the engine is Ready only after a
\* load that succeeded and NotReady after a load that failed; no search,
\* suggestion or statistics call changes it in either direction.
C4_ReadinessFixedByLoad ==
  /\ [](/\ is_ready \in BOOLEAN
        /\ is_ready => constructed /\ LoadSucceeded
        /\ (constructed /\ ~LoadSucceeded) => ~is_ready)
  /\ [][constructed => is_ready' = is_ready]_vars

\* a Ready engine that has answered a call
C4_Witness ==
  /\ constructed /\ is_ready
  /\ op = "search" /\ ret.kind = "return" /\ Len(ret.val) > 0

\* C5 (as claimed): in a Ready engine the number of stored vectors equals
\* the number of metadata records, a load of collections of different
\* lengths having failed.
C5_ReadyImpliesAlignedLengths ==
  is_ready => Len(embeddings) = Len(metadata)

\* C6 (as claimed): a search, here on an engine whose vectors and records
\* are aligned one to one, ends by returning either result records none of
\* which carries an error indicator, or one single error indicator; it
\* never raises.
C6_SearchSucceedsOrReturnsOneError ==
  (op = "search" /\ Len(embeddings) = Len(metadata))
  => /\ ret.kind = "return"
     /\ \/ \A i \in DOMAIN ret.val : "error" \notin DOMAIN ret.val[i]
        \/ Len(ret.val) = 1 /\ "error" \in DOMAIN ret.val[1]

\* C10 (as claimed): of two returned documents with equal similarity the
\* one with the smaller corpus index comes first.
C10_TiesInCorpusOrder ==
  (op = "search" /\ is_ready /\ ret.kind = "return")
  => \A i, j \in DOMAIN ret.val :
       (i < j /\ SimEqual(Scores(ret.val)[i], Scores(ret.val)[j]))
         => ret.val[i].id < ret.val[j].id

(***************************************************************************)
(* Properties of the nearest-neighbour lookup                              *)
(***************************************************************************)
\* the store holds one vector per record
Aligned == Len(embeddings) = Len(metadata)

\* cosine similarity as the design defines it: 0 when a norm is zero
GuardedSimilarity(e, q) ==
  IF Norm2(e) * Norm2(q) = 0 THEN [nan |-> FALSE, num |-> 0, den2 |-> 1]
  ELSE Similarity(e, q)

\* C11 (as claimed): in the lookup a document whose stored vector, or whose
\* query vector, has norm zero gets the similarity 0.
C11_ZeroNormScoresZero ==
  (op = "search_similar_papers" /\ Aligned /\ ret.kind = "return")
  => \A k \in DOMAIN ret.val :
       Norm2(embeddings[ret.val[k].id]) * Norm2(args.query_embedding) = 0
         => /\ ~ret.val[k].similarity_score.nan
            /\ ret.val[k].similarity_score.num = 0

\* C15 (as claimed, in the case that asks least: document i is the only
\* document with its vector): the lookup queried with the stored vector of
\* document i returns document i first, whatever else the corpus holds.
C15_OwnVectorRanksFirst ==
  (op = "search_similar_papers" /\ Aligned /\ args.top_k >= 1)
  => \A i \in DOMAIN embeddings :
       (/\ embeddings[i] = args.query_embedding
        /\ \A j \in DOMAIN embeddings : j # i => embeddings[j] # embeddings[i])
         => ret.kind = "return" /\ ret.val[1].id = i

\* C18 (as claimed): for a corpus of N documents the lookup returns
\* min(k, N) entries of pairwise distinct documents, and no document left
\* out is strictly more similar to the query than a returned one.
C18_TopKOfCorpus ==
  (op = "search_similar_papers" /\ Aligned)
  => /\ ret.kind = "return"
     /\ Len(ret.val) = Min(args.top_k, Len(embeddings))
     /\ \A i, j \in DOMAIN ret.val : i # j => ret.val[i].id # ret.val[j].id
     /\ \A k \in DOMAIN ret.val : \A d \in DOMAIN embeddings :
          (\A j \in DOMAIN ret.val : ret.val[j].id # d)
            => ~SimLess(GuardedSimilarity(embeddings[ret.val[k].id],
                                          args.query_embedding),
                        GuardedSimilarity(embeddings[d], args.query_embedding))

(***************************************************************************)
(* Properties of the store's contents and of the statistics                *)
(***************************************************************************)
StoredFields == {"id", "year", "journal"}

\* C12: once the engine is constructed no call changes the vector
\* collection or a stored record, and no stored record ever carries
\* similarity_score, similarity_percentage, search_query or processed_query.
C12_StoreNeverMutated ==
  /\ [](\A i \in DOMAIN metadata : DOMAIN metadata[i] = StoredFields)
  /\ [][constructed => /\ embeddings' = embeddings
                       /\ metadata' = metadata]_vars

\* a search that returned results carrying the derived fields
C12_Witness ==
  /\ is_ready /\ op = "search" /\ ret.kind = "return"
  /\ Len(ret.val) = 2
  /\ \A k \in DOMAIN ret.val :
       {"similarity_score", "similarity_percentage", "search_query",
        "processed_query"} \subseteq DOMAIN ret.val[k]
  /\ \A i \in DOMAIN metadata : DOMAIN metadata[i] = StoredFields

\* C13 (as claimed): on a Ready engine the statistics give a total_papers
\* equal to the number of metadata records and to the number of vectors.
C13_TotalPapersIsCorpusSize ==
  (op = "get_statistics" /\ is_ready)
  => /\ ret.kind = "return"
     /\ ret.val.total_papers = Len(metadata)
     /\ ret.val.total_papers = Len(embeddings)

(***************************************************************************)
(* Properties of the suggestions                                           *)
(***************************************************************************)
\* w occurs in t as a run of consecutive characters
Contains(t, w) ==
  \E a \in 1..(Len(t) + 1) :
    \A k \in 1..Len(w) : a + k - 1 <= Len(t) /\ t[a + k - 1] = w[k]

\* the whitespace-separated words of s
Words(s) ==
  {SubSeq(s, a, b) : <<a, b>> \in
     {ab \in (DOMAIN s) \X (DOMAIN s) :
        /\ ab[1] <= ab[2]
        /\ \A k \in ab[1]..ab[2] : s[k] \notin Whitespace
        /\ (ab[1] = 1 \/ s[ab[1] - 1] \in Whitespace)
        /\ (ab[2] = Len(s) \/ s[ab[2] + 1] \in Whitespace)}}

\* positions in the topic list of the topics that contain the lowercased
\* partial query or one of its words
MatchingTopics(partial_query) ==
  {i \in DOMAIN topics :
     \/ Contains(topics[i], Lower(partial_query))
     \/ \E w \in Words(Lower(partial_query)) : Contains(topics[i], w)}

\* C14: get_search_suggestions returns at most 5 topics, namely the first
\* topics, in the order of the topic list and each once, that contain the
\* lowercased partial query or one of its whitespace-separated words; the
\* result is determined by the partial query alone.
C14_SuggestionsAreFirstMatchingTopics ==
  op = "get_search_suggestions"
  => LET M == MatchingTopics(args.partial_query)
     IN /\ ret.kind = "return"
        /\ Len(ret.val) <= 5
        /\ Len(ret.val) = Min(5, Cardinality(M))
        /\ \A k \in DOMAIN ret.val :
             ret.val[k] = topics[CHOOSE i \in M :
                                   Cardinality({j \in M : j < i}) = k - 1]

\* 'CANCER vaccine' matches two topics by its words only, on an engine
\* whose load failed
C14_Witness ==
  /\ op = "get_search_suggestions"
  /\ constructed /\ ~is_ready
  /\ args.partial_query = <<"C","A","N","C","E","R"," ","v","a","c","c","i","n","e">>
  /\ ret = Returned(<<topics[3], topics[10]>>)

(***************************************************************************)
(* Properties of the exact-year filter                                     *)
(***************************************************************************)
\* the number a stored year denotes, if it denotes one
YearNumber(y) == IF y.type = "int" THEN [ok |-> TRUE, val |-> y.val] ELSE PyInt(y.val)

Rankings(q) ==
  {f \in IndexOrders(Len(embeddings)) :
     \A i, j \in DOMAIN embeddings :
       i < j => ~SimLess(GuardedSimilarity(embeddings[f[i]], q),
                         GuardedSimilarity(embeddings[f[j]], q))}

\* the documents search is to return for a ranking: of its first 2*top_k
\* documents those not strictly below min_similarity and accepted by the
\* year filter, cut after top_k
ExpectedIds(ranking, top_k, year_filter, min_similarity, q) ==
  LET cands == SubSeq(ranking, 1, Min(2 * top_k, Len(ranking)))
      Survives(k) ==
        /\ SimAtLeast(GuardedSimilarity(embeddings[cands[k]], q), min_similarity)
        /\ (year_filter # None /\ year_filter # <<>>)
             => YearDecision(metadata[cands[k]], year_filter) = "keep"
      survivors == SelectIdx(cands, Survives, 1)
  IN SubSeq(survivors, 1, Min(top_k, Len(survivors)))

\* C17 (as claimed): what search returns on a Ready engine is the first
\* top_k, in rank order, of the 2*top_k nearest candidates that are not
\* strictly below min_similarity and pass the year filter; nothing ranked
\* beyond 2*top_k is returned and nothing is added.
C17_ResultIsFilteredOverFetch ==
  (op = "search" /\ is_ready /\ Aligned /\ ret.kind = "return")
  => \E ranking \in Rankings(args.query_embedding) :
       [k \in DOMAIN ret.val |-> ret.val[k].id]
         = ExpectedIds(ranking, args.top_k, args.year_filter,
                       args.min_similarity, args.query_embedding)

(***************************************************************************)
(* Concurrent callers of one Ready engine.  A search is cut at the points  *)
(* where another caller's steps can come in between: after the             *)
(* preprocessing, after the lookup in the store, after the filters, and    *)
(* after the derived fields are attached.  Each caller's variables are     *)
(* locals of its own call; the store is shared.                            *)
(***************************************************************************)
NumCallers == 2

Callers == 1..NumCallers

ConcurrentCorpora ==
  {[vectors |-> <<<<1, 0>>, <<0, 1>>>>,
    records |-> <<[year |-> StrYear(<<"2","0","2","3">>), journal |-> <<"A">>],
                  [year |-> IntYear(2021), journal |-> <<"B">>]>>],
   [vectors |-> <<<<1, 0>>, <<1, 0>>>>,
    records |-> <<[year |-> StrYear(<<"n","/","a">>), journal |-> <<"A">>],
                  [year |-> StrYear(<<"2","0","2","3">>), journal |-> <<"A">>]>>]}

\* the calls the callers make, each with the vector the embedder gives for
\* its processed query
ConcurrentCalls ==
  {[query |-> <<"c","o","v","i","d">>, top_k |-> 2, year_filter |-> None,
    min_similarity |-> [num |-> -1, den |-> 1], query_embedding |-> <<1, 0>>],
   [query |-> <<" ","R","C","T","s"," ","o","a">>, top_k |-> 1,
    year_filter |-> <<"2","0","2","3">>,
    min_similarity |-> [num |-> 1, den |-> 10], query_embedding |-> <<-1, 1>>],
   [query |-> <<"A","I">>, top_k |-> 1,
    year_filter |-> <<"r","e","c","e","n","t">>,
    min_similarity |-> [num |-> -1, den |-> 1], query_embedding |-> <<1, 0>>]}

NoFrame ==
  [call |-> None, processed_query |-> None, order |-> None,
   results |-> None, outcome |-> None]

InitConcurrent ==
  /\ constructed = TRUE
  /\ is_ready = TRUE
  /\ \E corpus \in ConcurrentCorpora :
       /\ embFile = File(corpus.vectors)
       /\ metaFile = File(MetaFileOf(corpus.records))
       /\ embeddings = corpus.vectors
       /\ metadata = MetaFileOf(corpus.records)
  /\ op = "none"
  /\ args = None
  /\ ret = None
  /\ calls = {}
  /\ pc = [c \in Callers |-> "idle"]
  /\ frame = [c \in Callers |-> NoFrame]

\* the processed query a caller's later steps use: its own local
ProcessedQueryOf_Shared(c) ==
  LET past == {d \in Callers : pc[d] \in {"fetch", "filter", "annotate", "done"}}
  IN frame[CHOOSE d \in past : \A e \in past : e <= d].processed_query

ProcessedQueryOf(c) == frame[c].processed_query

\* a caller enters search with its arguments
Call(c) ==
  /\ pc[c] = "idle"
  /\ \E call \in ConcurrentCalls :
       frame' = [frame EXCEPT ![c] = [NoFrame EXCEPT !.call = call]]
  /\ pc' = [pc EXCEPT ![c] = "preprocess"]
  /\ UNCHANGED <<engineVars, op, args, ret, calls>>

\* the readiness check and preprocess_query
Preprocess(c) ==
  /\ pc[c] = "preprocess"
  /\ IF ~is_ready
       THEN /\ frame' = [frame EXCEPT ![c].outcome = Returned(NotReadyResults)]
            /\ pc' = [pc EXCEPT ![c] = "done"]
       ELSE /\ frame' = [frame EXCEPT
                           ![c].processed_query = preprocess_query(frame[c].call.query)]
            /\ pc' = [pc EXCEPT ![c] = "fetch"]
  /\ UNCHANGED <<engineVars, op, args, ret, calls>>

\* the embedding of the processed query and the lookup in the store
Fetch(c) ==
  /\ pc[c] = "fetch"
  /\ \E order \in ArgSorts(Similarities(frame[c].call.query_embedding)) :
       LET found == search_similar_papers(ProcessedQueryOf(c),
                                          frame[c].call.top_k * 2,
                                          frame[c].call.query_embedding, order)
       IN IF found.ret.kind = "raise"
            THEN /\ frame' = [frame EXCEPT ![c].order = order,
                                           ![c].outcome = found.ret]
                 /\ pc' = [pc EXCEPT ![c] = "done"]
            ELSE /\ frame' = [frame EXCEPT ![c].order = order,
                                           ![c].results = found.ret.val]
                 /\ pc' = [pc EXCEPT ![c] = "filter"]
  /\ UNCHANGED <<engineVars, op, args, ret, calls>>

\* the threshold, the year filter and the cut to top_k
Filter(c) ==
  /\ pc[c] = "filter"
  /\ LET above == MinSimilarityFilter(frame[c].results,
                                      frame[c].call.min_similarity)
         inYear == IF frame[c].call.year_filter = None
                        \/ frame[c].call.year_filter = <<>>
                     THEN Returned(above)
                     ELSE filter_by_year(above, frame[c].call.year_filter)
     IN IF inYear.kind = "raise"
          THEN /\ frame' = [frame EXCEPT ![c].outcome = inYear]
               /\ pc' = [pc EXCEPT ![c] = "done"]
          ELSE /\ frame' = [frame EXCEPT
                              ![c].results = Truncate(inYear.val, frame[c].call.top_k)]
               /\ pc' = [pc EXCEPT ![c] = "annotate"]
  /\ UNCHANGED <<engineVars, op, args, ret, calls>>

\* the derived fields and the return
Annotate(c) ==
  /\ pc[c] = "annotate"
  /\ frame' = [frame EXCEPT
                 ![c].outcome = Returned(AddSearchMetadata(frame[c].results,
                                                           frame[c].call.query,
                                                           ProcessedQueryOf(c)))]
  /\ pc' = [pc EXCEPT ![c] = "done"]
  /\ UNCHANGED <<engineVars, op, args, ret, calls>>

\* the caller takes its result and may call again
Finish(c) ==
  /\ pc[c] = "done"
  /\ frame' = [frame EXCEPT ![c] = NoFrame]
  /\ pc' = [pc EXCEPT ![c] = "idle"]
  /\ UNCHANGED <<engineVars, op, args, ret, calls>>

NextConcurrent ==
  \E c \in Callers :
    \/ Call(c)
    \/ Preprocess(c)
    \/ Fetch(c)
    \/ Filter(c)
    \/ Annotate(c)
    \/ Finish(c)

SpecConcurrent == InitConcurrent /\ [][NextConcurrent]_vars

\* what the call of caller c returns when it runs with no other call in
\* progress, for the ranking the library gave it
AloneOutcome(c) ==
  search(frame[c].call.query, frame[c].call.top_k, frame[c].call.year_filter,
         frame[c].call.min_similarity, frame[c].call.query_embedding,
         frame[c].order).ret

\* C19: whatever the interleaving of the callers' steps, a finished search
\* has exactly the outcome it has when run alone; in particular its results
\* carry its own query and processed query.
C19_InterleavedSearchEqualsAlone ==
  \A c \in Callers :
    pc[c] = "done"
      => /\ frame[c].outcome = AloneOutcome(c)
         /\ frame[c].outcome.kind = "return"
              => \A k \in DOMAIN frame[c].outcome.val :
                   /\ frame[c].outcome.val[k].search_query = frame[c].call.query
                   /\ frame[c].outcome.val[k].processed_query
                        = preprocess_query(frame[c].call.query)

\* caller 1 has returned results while caller 2, searching for another
\* query, is between its filter and its last step
C19_Witness ==
  /\ pc[1] = "done" /\ pc[2] = "annotate"
  /\ frame[1].call.query # frame[2].call.query
  /\ frame[1].outcome.kind = "return"
  /\ Len(frame[1].outcome.val) = 2
  /\ Len(frame[2].results) = 1

====
